---- MODULE Spec2Model ----
(***************************************************************************)
(* The two REDD converters (convert_redd_h5_to_dat.py, the "Primary";      *)
(* convert_redd_h5_to_dat_pytables.py, the "Fallback") as one state        *)
(* machine, with the entry point of each and the Debugger                  *)
(* (debug_h5_structure.py).  The container is read lazily: every action    *)
(* that advances a loop of the code draws the entry the loop meets next    *)
(* from a small set.                                                       *)
(*                                                                         *)
(* Representation.  A name the code inspects (startswith, replace, lower,  *)
(* substring, int) is a sequence of one-character strings.  A 64-bit       *)
(* integer n >= 0 is the pair <<n \div 10^9, n % 10^9>>.  A float64 is     *)
(* [mant, exp]: mant is its significand as a bit sequence, most            *)
(* significant bit first, at most 53 bits, and its value is mant * 2^exp.  *)
(* A table cell is a sequence: <<hi, lo>> for an index cell, the fields of *)
(* a value cell otherwise.                                                 *)
(***************************************************************************)
EXTENDS Integers, Sequences, FiniteSets, TLC

\* ------------------------------------------------------------ bounds
\* top-level entries the container holds (Primary's outer loop)
MaxEntries == 2
\* meter entries the container holds in all
MaxMeters == 2

\* ------------------------------------------------------------ names
S_building == <<"b","u","i","l","d","i","n","g">>
S_meter == <<"m","e","t","e","r">>
S_cache == <<"c","a","c","h","e">>
S_index == <<"i","n","d","e","x">>
S_value == <<"v","a","l","u","e">>
S_power == <<"p","o","w","e","r">>
S_values_block == <<"v","a","l","u","e","s","_","b","l","o","c","k">>
S_values_block_0 == S_values_block \o <<"_","0">>
S_values_block_1 == S_values_block \o <<"_","1">>

\* the characters of the model's names, in code-point order
Alphabet == <<"0","1","2","3","4","5","6","7","8","9",
              "A","E","L","P","U","V","_",
              "a","b","c","d","e","g","h","i","k","l","m","n","o","p","r","s","t","u","v","w","x">>

Rank(c) == CHOOSE i \in 1..Len(Alphabet) : Alphabet[i] = c

\* s < t in the order h5py lists the keys of a group (by name)
RECURSIVE LexLess(_, _)
LexLess(s, t) ==
    IF t = <<>> THEN FALSE
    ELSE IF s = <<>> THEN TRUE
    ELSE IF s[1] = t[1] THEN LexLess(Tail(s), Tail(t))
    ELSE Rank(s[1]) < Rank(t[1])

\* str.startswith
StartsWith(s, p) == Len(s) >= Len(p) /\ SubSeq(s, 1, Len(p)) = p

\* str.replace(old, ''): every non-overlapping occurrence, left to right
RECURSIVE Replace(_, _)
Replace(s, old) ==
    IF s = <<>> THEN <<>>
    ELSE IF StartsWith(s, old) THEN Replace(SubSeq(s, Len(old) + 1, Len(s)), old)
    ELSE <<s[1]>> \o Replace(Tail(s), old)

\* sub in s
Contains(s, sub) ==
    \E i \in 1..(Len(s) - Len(sub) + 1) : SubSeq(s, i, i + Len(sub) - 1) = sub

LowerChar(c) ==
    CASE c = "A" -> "a" [] c = "E" -> "e" [] c = "L" -> "l"
      [] c = "P" -> "p" [] c = "U" -> "u" [] c = "V" -> "v"
      [] OTHER -> c

\* str.lower
Lower(s) == [i \in 1..Len(s) |-> LowerChar(s[i])]

Digits == <<"0","1","2","3","4","5","6","7","8","9">>

IsDigit(c) == \E i \in 1..10 : Digits[i] = c

DigitVal(c) == (CHOOSE i \in 1..10 : Digits[i] = c) - 1

\* int(s) succeeds (the model's names carry no sign, blank or underscore)
IsIntLiteral(s) == Len(s) > 0 /\ \A i \in 1..Len(s) : IsDigit(s[i])

RECURSIVE ParseInt(_)
ParseInt(s) ==
    IF s = <<>> THEN 0
    ELSE 10 * ParseInt(SubSeq(s, 1, Len(s) - 1)) + DigitVal(s[Len(s)])

\* str(n) of an integer n >= 0, as the f-strings format it
RECURSIVE IntToStr(_)
IntToStr(n) ==
    IF n < 10 THEN <<Digits[n + 1]>>
    ELSE Append(IntToStr(n \div 10), Digits[(n % 10) + 1])

\* ------------------------------------------------------------ numbers
Billion == 1000000000

\* bits of a float64 significand
Precision == 53

\* zero bits appended to the dividend so that the quotient by 10^9 (30 bits)
\* has more than Precision + 1 significant bits
DivShift == Precision + 31

\* the threshold 1e12 of the Fallback's unit detection, in thousands of 10^9
NsThresholdHi == 1000

Zeros(k) == [i \in 1..k |-> 0]

AnyOne(b) == \E i \in 1..Len(b) : b[i] = 1

\* b without its leading zero bits
StripZeros(b) ==
    IF ~AnyOne(b) THEN <<>>
    ELSE SubSeq(b, CHOOSE i \in 1..Len(b) : b[i] = 1 /\ \A j \in 1..(i - 1) : b[j] = 0, Len(b))

\* the nine bits of v < 512, most significant first
Bits9(v) == [i \in 1..9 |-> (v \div (2 ^ (9 - i))) % 2]

\* the bits of the 64-bit integer n, nine at a time (10^9 = 512 * 1953125, so
\* n \div 512 = <<hi \div 512, (hi % 512) * 1953125 + lo \div 512>> and
\* n % 512 = lo % 512), leading zeros included
RECURSIVE ToBits9(_)
ToBits9(n) ==
    IF n[1] = 0 /\ n[2] = 0 THEN <<>>
    ELSE ToBits9(<<n[1] \div 512, (n[1] % 512) * (Billion \div 512) + n[2] \div 512>>)
         \o Bits9(n[2] % 512)

\* the bits of the 64-bit integer n, most significant first
ToBits(n) == StripZeros(ToBits9(n))

\* the integer whose bits are b, as a pair
RECURSIVE FromBits(_)
FromBits(b) ==
    IF b = <<>> THEN <<0, 0>>
    ELSE LET p == FromBits(SubSeq(b, 1, Len(b) - 1))
             lo2 == 2 * p[2] + b[Len(b)]
         IN <<2 * p[1] + lo2 \div Billion, lo2 % Billion>>

RECURSIVE IncBits(_)
IncBits(b) ==
    IF b = <<>> THEN <<1>>
    ELSE IF b[Len(b)] = 0 THEN Append(SubSeq(b, 1, Len(b) - 1), 1)
    ELSE Append(IncBits(SubSeq(b, 1, Len(b) - 1)), 0)

\* IEEE 754 round-to-nearest, ties to even, of the integer with bits b (plus
\* a nonzero fraction below it when sticky) to Precision bits
RoundNearestEven(b, sticky) ==
    IF Len(b) <= Precision THEN [mant |-> b, exp |-> 0]
    ELSE LET keep == SubSeq(b, 1, Precision)
             guard == b[Precision + 1]
             rest == AnyOne(SubSeq(b, Precision + 2, Len(b))) \/ sticky
             up == guard = 1 /\ (rest \/ keep[Precision] = 1)
             m == IF up THEN IncBits(keep) ELSE keep
             dropped == Len(b) - Precision
         IN IF Len(m) > Precision
            THEN [mant |-> SubSeq(m, 1, Precision), exp |-> dropped + 1]
            ELSE [mant |-> m, exp |-> dropped]

\* int64 -> float64, the conversion numpy applies to the operand of "/ 1e9"
IntToFloat(n) == RoundNearestEven(ToBits(n), FALSE)

\* long division by 10^9 of the bits b[lo..hi], r carried in from the bits
\* before them: one quotient bit per bit, and the remainder
RECURSIVE LongDiv(_, _, _, _)
LongDiv(b, lo, hi, r) ==
    IF lo > hi THEN [q |-> <<>>, r |-> r]
    ELSE IF lo = hi
    THEN LET r2 == 2 * r + b[lo]
         IN IF r2 >= Billion THEN [q |-> <<1>>, r |-> r2 - Billion]
            ELSE [q |-> <<0>>, r |-> r2]
    ELSE LET mid == (lo + hi) \div 2
             left == LongDiv(b, lo, mid, r)
             right == LongDiv(b, mid + 1, hi, left.r)
         IN [q |-> left.q \o right.q, r |-> right.r]

\* x / 1e9 in float64: the exact quotient, correctly rounded
FloatDivBillion(x) ==
    IF x.mant = <<>> THEN x
    ELSE LET d == LongDiv(x.mant \o Zeros(DivShift), 1, Len(x.mant) + DivShift, 0)
             y == RoundNearestEven(StripZeros(d.q), d.r # 0)
         IN [mant |-> y.mant, exp |-> x.exp + y.exp - DivShift]

\* float64 .astype(int): the fraction is dropped
FloatToInt(x) ==
    IF x.exp >= 0 THEN FromBits(x.mant \o Zeros(x.exp))
    ELSE IF Len(x.mant) + x.exp <= 0 THEN <<0, 0>>
    ELSE FromBits(SubSeq(x.mant, 1, Len(x.mant) + x.exp))

\* (timestamps / 1e9).astype(int), one element
NsToSeconds(t) == FloatToInt(FloatDivBillion(IntToFloat(t)))

\* a > b on 64-bit integers
Greater(a, b) == a[1] > b[1] \/ (a[1] = b[1] /\ a[2] > b[2])

\* ------------------------------------------------------------ tables
(***************************************************************************)
(* A table is [names, wide, rows, frame_index]: the column names in dtype  *)
(* order, the positions of the columns with a second axis, the rows (one   *)
(* cell per column) and, for the DataFrame pandas builds of it, the index  *)
(* values of the rows.                                                     *)
(***************************************************************************)
ColumnOf(table, name) == CHOOSE i \in 1..Len(table.names) : table.names[i] = name

HasColumn(table, name) == \E i \in 1..Len(table.names) : table.names[i] = name

\* the least member of a non-empty set of positions
First(S) == CHOOSE i \in S : \A j \in S : i <= j

\* data[col], and its first column when it has a second axis
PowerValues(table, col) ==
    IF col \in table.wide
    THEN [r \in 1..Len(table.rows) |-> Head(table.rows[r][col])]
    ELSE [r \in 1..Len(table.rows) |-> table.rows[r][col][1]]

\* the 'index' column
IndexColumn(table) ==
    [r \in 1..Len(table.rows) |-> table.rows[r][ColumnOf(table, S_index)]]

\* PrimaryValueColumn without the preference for values_block_0
PrimaryValueColumnFirstMatch(table) ==
    LET value_cols == {i \in 1..Len(table.names) :
                          Contains(Lower(table.names[i]), S_value)}
    IN IF value_cols # {} THEN First(value_cols) ELSE 0

\* Primary: the value column, 0 when there is none
PrimaryValueColumn(table) ==
    IF HasColumn(table, S_values_block_0) THEN ColumnOf(table, S_values_block_0)
    ELSE LET value_cols == {i \in 1..Len(table.names) :
                               Contains(Lower(table.names[i]), S_value)}
         IN IF value_cols # {} THEN First(value_cols) ELSE 0

\* PrimaryReadTable without "if len(sample) == 0: continue"
PrimaryReadTableNoEmptyCheck(table, fault) ==
    IF fault = "read" THEN [status |-> "read_error", timestamps |-> <<>>, power |-> <<>>]
    ELSE IF ~HasColumn(table, S_index)
    THEN [status |-> "read_error", timestamps |-> <<>>, power |-> <<>>]
    ELSE LET col == PrimaryValueColumn(table)
             timestamps == IndexColumn(table)
         IN IF col = 0 THEN [status |-> "no_values", timestamps |-> <<>>, power |-> <<>>]
            ELSE [status |-> "ok",
                  timestamps |-> [r \in 1..Len(timestamps) |-> NsToSeconds(timestamps[r])],
                  power |-> PowerValues(table, col)]

\* Primary: the inner try block, from the sample read to the rescaling
PrimaryReadTable(table, fault) ==
    IF fault = "read" THEN [status |-> "read_error", timestamps |-> <<>>, power |-> <<>>]
    ELSE IF Len(table.rows) = 0 THEN [status |-> "empty", timestamps |-> <<>>, power |-> <<>>]
    ELSE IF ~HasColumn(table, S_index)
    THEN [status |-> "read_error", timestamps |-> <<>>, power |-> <<>>]
    ELSE LET col == PrimaryValueColumn(table)
             timestamps == IndexColumn(table)
         IN IF col = 0 THEN [status |-> "no_values", timestamps |-> <<>>, power |-> <<>>]
            ELSE [status |-> "ok",
                  timestamps |-> [r \in 1..Len(timestamps) |-> NsToSeconds(timestamps[r])],
                  power |-> PowerValues(table, col)]

\* Fallback: the power column, 0 when there is none
FallbackPowerColumn(table) ==
    LET matches == {i \in 1..Len(table.names) :
                       Contains(table.names[i], S_values_block)
                       \/ Contains(Lower(table.names[i]), S_power)}
        non_index_cols == {i \in 1..Len(table.names) : table.names[i] # S_index}
    IN IF matches # {} THEN First(matches)
       ELSE IF non_index_cols # {} THEN First(non_index_cols) ELSE 0

\* Fallback: nanoseconds when the largest raw timestamp exceeds 1e12
FallbackRescale(timestamps) ==
    IF \E r \in 1..Len(timestamps) : Greater(timestamps[r], <<NsThresholdHi, 0>>)
    THEN [r \in 1..Len(timestamps) |-> NsToSeconds(timestamps[r])]
    ELSE timestamps

\* Fallback: from store[meter_key] to the rescaling
FallbackReadTable(table, fault) ==
    IF fault = "read" THEN [status |-> "read_error", timestamps |-> <<>>, power |-> <<>>]
    ELSE IF Len(table.rows) = 0 THEN [status |-> "empty", timestamps |-> <<>>, power |-> <<>>]
    ELSE LET timestamps == IF HasColumn(table, S_index) THEN IndexColumn(table)
                           ELSE table.frame_index
             power_col == FallbackPowerColumn(table)
         IN IF power_col = 0 THEN [status |-> "no_values", timestamps |-> <<>>, power |-> <<>>]
            ELSE [status |-> "ok",
                  timestamps |-> FallbackRescale(timestamps),
                  power |-> PowerValues(table, power_col)]

\* ToCsv with repeated rows dropped (a drop_duplicates before the write)
ToCsvDeduplicated(timestamps, power) ==
    LET all == [r \in 1..Len(timestamps) |-> [ts |-> timestamps[r], power |-> power[r]]]
        kept == {r \in 1..Len(all) : \A q \in 1..(r - 1) : all[q] # all[r]}
        Nth(n) == CHOOSE r \in kept : Cardinality({q \in kept : q < r}) = n - 1
    IN [n \in 1..Cardinality(kept) |-> all[Nth(n)]]

\* pd.DataFrame({'timestamp': ..., 'power': ...}).to_csv: one row per element
ToCsv(timestamps, power) ==
    [r \in 1..Len(timestamps) |-> [ts |-> timestamps[r], power |-> power[r]]]

\* ------------------------------------------------------------ labels
standard_redd_mapping ==
    <<"mains", "mains", "oven", "oven", "refrigerator", "dishwasher",
      "kitchen_outlets", "kitchen_outlets", "lighting", "washer_dryer",
      "microwave", "bathroom_gfi", "electric_heat", "stove", "kitchen_outlets",
      "kitchen_outlets", "lighting", "lighting", "washer_dryer", "washer_dryer">>

\* standard_redd_mapping.get(meter_num, f'unknown_{meter_num}')
ApplianceName(meter_num) ==
    IF meter_num \in DOMAIN standard_redd_mapping
    THEN <<standard_redd_mapping[meter_num]>>
    ELSE <<"unknown_">> \o IntToStr(meter_num)

\* f"{meter_num} {appliance_name}"
LabelLine(meter_num) == [id |-> IntToStr(meter_num), name |-> ApplianceName(meter_num)]

\* ------------------------------------------------------------ sample inputs
S_Value == <<"V","a","l","u","e">>
S_Power == <<"P","o","w","e","r">>
S_x == <<"x">>

\* raw timestamps: 1e12, 2e12 and 1303132929999999999 (nanoseconds)
Ns1 == <<1000, 0>>
Ns2 == <<2000, 0>>
NsEdge == <<1303132929, 999999999>>

\* two rows of nanosecond timestamps, in order
T_example ==
    [names |-> <<S_index, S_values_block_0>>, wide |-> {},
     rows |-> << <<Ns1, <<125>>>>, <<Ns2, <<0>>>> >>,
     frame_index |-> <<Ns1, Ns2>>, unit |-> "ns"]

\* three rows, out of order and with a repeated row; two fields per value
T_wide ==
    [names |-> <<S_index, S_values_block_0>>, wide |-> {2},
     rows |-> << <<Ns2, <<7, 8>>>>, <<Ns2, <<7, 8>>>>, <<Ns1, <<3, 4>>>> >>,
     frame_index |-> <<Ns2, Ns2, Ns1>>, unit |-> "ns"]

\* one nanosecond short of a whole second
T_edge ==
    [names |-> <<S_index, S_values_block_0>>, wide |-> {},
     rows |-> << <<NsEdge, <<50>>>> >>,
     frame_index |-> <<NsEdge>>, unit |-> "ns"]

T_alt ==
    [names |-> <<S_index, S_x, S_Value, S_values_block_1>>, wide |-> {3},
     rows |-> << <<Ns2, <<1>>, <<2, 20>>, <<3>>>> >>,
     frame_index |-> <<Ns2>>, unit |-> "ns"]

T_pref ==
    [names |-> <<S_index, S_Value, S_values_block_0>>, wide |-> {},
     rows |-> << <<Ns2, <<4>>, <<5>>>> >>,
     frame_index |-> <<Ns2>>, unit |-> "ns"]

T_power ==
    [names |-> <<S_index, S_x, S_Power>>, wide |-> {},
     rows |-> << <<Ns2, <<14>>, <<15>>>> >>,
     frame_index |-> <<Ns2>>, unit |-> "ns"]

T_noval ==
    [names |-> <<S_index, S_x>>, wide |-> {},
     rows |-> << <<Ns2, <<6>>>> >>,
     frame_index |-> <<Ns2>>, unit |-> "ns"]

T_noindex ==
    [names |-> <<S_values_block_0>>, wide |-> {},
     rows |-> << << <<9>> >> >>,
     frame_index |-> <<Ns2>>, unit |-> "ns"]

T_onlyindex ==
    [names |-> <<S_index>>, wide |-> {},
     rows |-> << <<Ns2>> >>,
     frame_index |-> <<Ns2>>, unit |-> "ns"]

T_empty ==
    [names |-> <<S_index, S_values_block_0>>, wide |-> {},
     rows |-> <<>>, frame_index |-> <<>>, unit |-> "ns"]

\* timestamps already in seconds
T_sec ==
    [names |-> <<S_index, S_values_block_0>>, wide |-> {},
     rows |-> << <<<<0, 1000>>, <<11>>>>, <<<<1, 303132929>>, <<12>>>> >>,
     frame_index |-> <<<<0, 1000>>, <<1, 303132929>>>>, unit |-> "s"]

\* nanoseconds, none above 1e12
T_lowns ==
    [names |-> <<S_index, S_values_block_0>>, wide |-> {},
     rows |-> << <<Ns1, <<13>>>> >>,
     frame_index |-> <<Ns1>>, unit |-> "ns"]

Tables ==
    {T_example, T_wide, T_edge, T_alt, T_pref, T_power, T_noval, T_noindex,
     T_onlyindex, T_empty, T_sec, T_lowns}

\* what the environment does to a meter's I/O: nothing, a failing read, a
\* to_csv that fails before it creates the file, a to_csv that fails after
\* it wrote `cut` rows
Entry(key, num, hasTable, table, fault, cut) ==
    [key |-> key, num |-> num, hasTable |-> hasTable, table |-> table,
     fault |-> fault, cut |-> cut]

Faulty(key, num) ==
    {Entry(key, num, TRUE, T_example, "read", 0),
     Entry(key, num, TRUE, T_example, "write_open", 0),
     Entry(key, num, TRUE, T_example, "write_partial", 0),
     Entry(key, num, TRUE, T_example, "write_partial", 1)}

\* the children an "elec" group may hold (Primary)
PrimaryEntries ==
    {Entry(S_meter \o <<"1">>, 0, TRUE, t, "none", 0) : t \in Tables}
    \cup {Entry(k, 0, TRUE, T_example, "none", 0) :
            k \in {S_cache, S_power, S_meter \o <<"0","1">>, S_meter \o <<"2","1">>,
                   S_meter \o <<"5">>, S_meter \o <<"x">>, S_meter}}
    \cup {Entry(S_meter \o <<"5">>, 0, FALSE, T_empty, "none", 0)}
    \cup Faulty(S_meter \o <<"1">>, 0)
    \cup Faulty(S_meter \o <<"5">>, 0)

\* the meters the store may hold under one building (Fallback)
FallbackEntries ==
    {Entry(S_meter \o <<"1">>, 1, TRUE, t, "none", 0) : t \in Tables}
    \cup {Entry(S_meter \o IntToStr(m), m, TRUE, T_example, "none", 0) : m \in {5, 21, 29}}
    \cup Faulty(S_meter \o <<"1">>, 1)
    \cup Faulty(S_meter \o <<"5">>, 5)

\* the top-level keys a container may hold (Primary)
TopKeys == {<<"a">>, S_building \o <<"1">>, S_building \o <<"2">>, S_x}

NoEntry == Entry(<<>>, 0, FALSE, T_empty, "none", 0)

\* range(1, 7) and range(1, 30) of the Fallback's loops
BuildingStart == 1
BuildingStop == 7
MeterStart == 1
MeterStop == 30

\* ------------------------------------------------------------ one meter
NoWrite == [kind |-> "none", num |-> 0, rows |-> <<>>]

Skip(outcome) == [outcome |-> outcome, exc |-> "none", write |-> NoWrite, label |-> <<>>]

\* from channel_file = ... to labels_data.append(...): the file to_csv leaves
\* behind, and the label line when nothing was raised
WriteChannel(meter_num, rows, fault, cut) ==
    IF fault = "write_open"
    THEN [outcome |-> "write_error", exc |-> "OSError", write |-> NoWrite, label |-> <<>>]
    ELSE IF fault = "write_partial"
    THEN [outcome |-> "write_error", exc |-> "OSError",
          write |-> [kind |-> "partial", num |-> meter_num, rows |-> SubSeq(rows, 1, cut)],
          label |-> <<>>]
    ELSE [outcome |-> "converted", exc |-> "none",
          write |-> [kind |-> "full", num |-> meter_num, rows |-> rows],
          label |-> <<LabelLine(meter_num)>>]

\* Primary: the body of "for meter_key in elec_group.keys()"
PrimaryMeter(e) ==
    IF e.key = S_cache \/ ~StartsWith(e.key, S_meter) THEN Skip("ignored")
    ELSE LET suffix == Replace(e.key, S_meter)
         IN IF ~IsIntLiteral(suffix)
            THEN [outcome |-> "bad_id", exc |-> "ValueError", write |-> NoWrite,
                  label |-> <<>>]
            ELSE IF ~e.hasTable THEN Skip("no_table")
            ELSE LET rd == PrimaryReadTable(e.table, e.fault)
                 IN IF rd.status # "ok" THEN Skip(rd.status)
                    ELSE WriteChannel(ParseInt(suffix), ToCsv(rd.timestamps, rd.power),
                                      e.fault, e.cut)

\* Fallback: the body of "for meter_num in range(1, 30)" for a key the store holds
FallbackMeter(e) ==
    LET rd == FallbackReadTable(e.table, e.fault)
    IN IF rd.status = "read_error"
       THEN [outcome |-> "read_error", exc |-> "OSError", write |-> NoWrite, label |-> <<>>]
       ELSE IF rd.status # "ok" THEN Skip(rd.status)
       ELSE WriteChannel(e.num, ToCsv(rd.timestamps, rd.power), e.fault, e.cut)

\* what each sample entry comes to, computed once
PrimaryOutcomes == [e \in PrimaryEntries |-> PrimaryMeter(e)]

FallbackOutcomes == [e \in FallbackEntries |-> FallbackMeter(e)]

\* MeterExcept as "except OSError"
MeterExceptOSErrorOnly(exc) == exc = "OSError"

\* "except Exception" around a meter's step: every exception of the model is one
MeterExcept(exc) == exc \in {"ValueError", "OSError", "TypeError", "KeyError"}

\* the channel files after a meter's step
ApplyWrite(files, dir, w) ==
    IF w.kind = "none" THEN files
    ELSE LET path == <<dir, IntToStr(w.num)>>
         IN [x \in DOMAIN files \cup {path} |->
                IF x = path THEN [rows |-> w.rows, complete |-> w.kind = "full"]
                ELSE files[x]]

\* ------------------------------------------------------------ state
VARIABLES
    script,            \* which converter runs
    pc,                \* "start", "houses", "meters", "done" (the end-of-run report
                       \* is printed), "failed" (an exception left the with block)
    handle,            \* the container's read handle: "closed" or "open"
    f,                 \* what the name f is bound to
    house_key,         \* Primary: the outer loop's variable
    building_num,      \* Fallback: the outer loop's variable
    house,             \* the suffix of the current house_<...> directory
    meter_pos,         \* Fallback: the next meter_num the inner loop probes
    entriesSeen,       \* top-level entries read so far
    metersSeen,        \* meter entries read so far
    meter_key,         \* Primary: the last key the inner loop's iterator gave
    cur,               \* the last meter entry read, where, and what became of it
    labels_data,
    processed_houses,
    channels,          \* <<house, meter id>> -> the channel file
    labelsFile,        \* house -> the lines of labels.dat
    dirs,              \* the house directories made
    error,             \* the exception that ended the pass, or "none"
    mode,              \* the mode the container was last opened with, or "none"
    main,              \* where the script's entry point is: "start", "examine",
                       \* "examining", "pass", "returned", "probed", "exit"
    success,           \* Fallback: what the conversion returned, or "unset"
    probe,             \* Fallback: what the pickle probe met, or "none"
    message            \* the banner the entry point printed last, or "none"

vars ==
    <<script, pc, handle, f, house_key, building_num, house, meter_pos, entriesSeen,
      metersSeen, meter_key, cur, labels_data, processed_houses, channels, labelsFile, dirs, error,
      mode, main, success, probe, message>>

NoCur == [entry |-> NoEntry, outcome |-> "none", dir |-> <<>>]

Init ==
    /\ script \in {"primary", "fallback", "debug"}
    /\ pc = "start"
    /\ handle = "closed"
    /\ f = "unbound"
    /\ house_key = <<>>
    /\ building_num = 0
    /\ house = <<>>
    /\ meter_pos = 0
    /\ entriesSeen = 0
    /\ metersSeen = 0
    /\ meter_key = <<>>
    /\ cur = NoCur
    /\ labels_data = <<>>
    /\ processed_houses = 0
    /\ channels = [x \in {} |-> 0]
    /\ labelsFile = [x \in {} |-> 0]
    /\ dirs = {}
    /\ error = "none"
    /\ mode = "none"
    /\ main = IF script = "debug" THEN "pass" ELSE "start"
    /\ success = "unset"
    /\ probe = "none"
    /\ message = "none"

\* the mode of h5py.File(h5_file_path, 'r') and pd.HDFStore(h5_file_path, 'r')
ContainerMode == "r"

\* Propagate with the handle left as it is (no with block around the pass)
PropagateHandleLeft(exc) ==
    /\ pc' = "failed"
    /\ error' = exc
    /\ UNCHANGED handle

\* the exception leaves the with block: the handle is released on the way
Propagate(exc) ==
    /\ pc' = "failed"
    /\ error' = exc
    /\ handle' = "closed"

\* with h5py.File(...) as f / with pd.HDFStore(...) as store
OpenContainer ==
    /\ main = "pass"
    /\ pc = "start"
    /\ \E ok \in BOOLEAN :
          IF ok
          THEN /\ handle' = "open"
               /\ mode' = ContainerMode
               /\ f' = IF script = "fallback" THEN f ELSE "container"
               /\ pc' = IF script = "debug" THEN "visit" ELSE "houses"
               /\ UNCHANGED error
          ELSE /\ pc' = "failed"
               /\ error' = "OSError"
               /\ UNCHANGED <<handle, f, mode>>
    /\ UNCHANGED <<main, success, probe, message>>
    /\ UNCHANGED <<script, house_key, building_num, house, meter_pos, entriesSeen,
                   metersSeen, meter_key, cur, labels_data, processed_houses,
                   channels, labelsFile, dirs>>

\* Primary: one iteration of "for house_key in f.keys()" up to the meter loop
PrimaryNextHouse ==
    /\ script = "primary"
    /\ pc = "houses"
    /\ entriesSeen < MaxEntries
    /\ \E key \in TopKeys, hasElec \in BOOLEAN :
          /\ LexLess(house_key, key)
          /\ house_key' = key
          /\ entriesSeen' = entriesSeen + 1
          /\ IF ~StartsWith(key, S_building)
             THEN UNCHANGED <<pc, error, handle, house, dirs, labels_data, meter_key>>
             ELSE IF f # "container"
             THEN /\ Propagate("TypeError")
                  /\ UNCHANGED <<house, dirs, labels_data, meter_key>>
             ELSE /\ house' = Replace(key, S_building)
                  /\ dirs' = dirs \cup {house'}
                  /\ UNCHANGED <<error, handle>>
                  /\ IF ~hasElec
                     THEN UNCHANGED <<pc, labels_data, meter_key>>
                     ELSE /\ labels_data' = <<>>
                          /\ meter_key' = <<>>
                          /\ pc' = "meters"
    /\ UNCHANGED <<mode, main, success, probe, message>>
    /\ UNCHANGED <<script, f, building_num, meter_pos, metersSeen, cur,
                   processed_houses, channels, labelsFile>>

\* a meter's step on the shared state
MeterEffect(e, r) ==
    /\ cur' = [entry |-> e, outcome |-> r.outcome, dir |-> house]
    /\ metersSeen' = metersSeen + 1
    /\ channels' = ApplyWrite(channels, house, r.write)
    /\ IF r.exc # "none" /\ ~MeterExcept(r.exc)
       THEN /\ Propagate(r.exc)
            /\ UNCHANGED labels_data
       ELSE /\ labels_data' = labels_data \o r.label
            /\ UNCHANGED <<pc, error, handle>>

\* Primary: one iteration of "for meter_key in elec_group.keys()"
PrimaryNextMeter ==
    /\ script = "primary"
    /\ pc = "meters"
    /\ metersSeen < MaxMeters
    /\ \E e \in PrimaryEntries :
          /\ LexLess(meter_key, e.key)
          /\ meter_key' = e.key
          /\ MeterEffect(e, PrimaryOutcomes[e])
    /\ UNCHANGED <<mode, main, success, probe, message>>
    /\ UNCHANGED <<script, f, house_key, building_num, house, meter_pos, entriesSeen,
                   processed_houses, labelsFile, dirs>>

\* SaveLabels with "processed_houses += 1" outside the "if labels_data:"
SaveLabelsUnguarded ==
    IF labels_data = <<>>
    THEN /\ pc' = "houses"
         /\ processed_houses' = processed_houses + 1
         /\ UNCHANGED <<labelsFile, f, error, handle>>
    ELSE \E ok \in BOOLEAN :
            IF ok
            THEN /\ labelsFile' = [x \in DOMAIN labelsFile \cup {house} |->
                                      IF x = house THEN labels_data ELSE labelsFile[x]]
                 /\ f' = "labels_file"
                 /\ processed_houses' = processed_houses + 1
                 /\ pc' = "houses"
                 /\ UNCHANGED <<error, handle>>
            ELSE /\ Propagate("OSError")
                 /\ UNCHANGED <<labelsFile, f, processed_houses>>

\* "if labels_data:" after the meter loop; open() may fail
SaveLabels ==
    IF labels_data = <<>>
    THEN /\ pc' = "houses"
         /\ UNCHANGED <<labelsFile, f, processed_houses, error, handle>>
    ELSE \E ok \in BOOLEAN :
            IF ok
            THEN /\ labelsFile' = [x \in DOMAIN labelsFile \cup {house} |->
                                      IF x = house THEN labels_data ELSE labelsFile[x]]
                 /\ f' = "labels_file"
                 /\ processed_houses' = processed_houses + 1
                 /\ pc' = "houses"
                 /\ UNCHANGED <<error, handle>>
            ELSE /\ Propagate("OSError")
                 /\ UNCHANGED <<labelsFile, f, processed_houses>>

\* Primary: the meter loop ends
PrimaryFinishHouse ==
    /\ script = "primary"
    /\ pc = "meters"
    /\ SaveLabels
    /\ UNCHANGED <<mode, main, success, probe, message>>
    /\ UNCHANGED <<script, house_key, building_num, house, meter_pos, entriesSeen,
                   metersSeen, meter_key, cur, labels_data, channels, dirs>>

\* the building loop ends: the report is printed and the with block left
EndReport ==
    /\ pc = "houses"
    /\ script = "fallback" => building_num + 1 = BuildingStop
    /\ pc' = "done"
    /\ handle' = "closed"
    /\ UNCHANGED <<mode, main, success, probe, message>>
    /\ UNCHANGED <<script, f, house_key, building_num, house, meter_pos, entriesSeen,
                   metersSeen, meter_key, cur, labels_data, processed_houses,
                   channels, labelsFile, dirs, error>>

\* Fallback: one iteration of "for building_num in range(1, 7)" up to the meter loop
FallbackNextBuilding ==
    /\ script = "fallback"
    /\ pc = "houses"
    /\ building_num + 1 < BuildingStop
    /\ building_num' = IF building_num = 0 THEN BuildingStart ELSE building_num + 1
    /\ house' = IntToStr(building_num')
    /\ dirs' = dirs \cup {house'}
    /\ labels_data' = <<>>
    /\ meter_pos' = MeterStart
    /\ pc' = "meters"
    /\ UNCHANGED <<mode, main, success, probe, message>>
    /\ UNCHANGED <<script, handle, f, house_key, entriesSeen, metersSeen, meter_key,
                   cur, processed_houses, channels, labelsFile, error>>

\* Fallback: the inner loop up to and including the next meter the store holds
FallbackNextMeter ==
    /\ script = "fallback"
    /\ pc = "meters"
    /\ metersSeen < MaxMeters
    /\ \E e \in FallbackEntries :
          /\ meter_pos <= e.num
          /\ e.num < MeterStop
          /\ meter_pos' = e.num + 1
          /\ MeterEffect(e, FallbackOutcomes[e])
    /\ UNCHANGED <<mode, main, success, probe, message>>
    /\ UNCHANGED <<script, f, house_key, building_num, house, entriesSeen, meter_key,
                   processed_houses, labelsFile, dirs>>

\* Fallback: the inner loop runs out
FallbackFinishBuilding ==
    /\ script = "fallback"
    /\ pc = "meters"
    /\ SaveLabels
    /\ meter_pos' = MeterStop
    /\ UNCHANGED <<mode, main, success, probe, message>>
    /\ UNCHANGED <<script, house_key, building_num, house, entriesSeen, metersSeen,
                   meter_key, cur, labels_data, channels, dirs>>

\* ------------------------------------------------------------ entry points
\* the variables of a conversion or inspection pass
passVars ==
    <<pc, f, house_key, building_num, house, meter_pos, entriesSeen, metersSeen,
      meter_key, cur, labels_data, processed_houses, error>>

\* the files under the output directory
outputVars == <<channels, labelsFile, dirs>>

\* the meters the Debugger looks at: list(elec_group.keys())[:3]
DebugMeters == 3

\* main(), both converters: "if not os.path.exists(h5_file): ... return"
MainStart ==
    /\ main = "start"
    /\ \E exists \in BOOLEAN :
          IF exists
          THEN /\ main' = IF script = "primary" THEN "examine" ELSE "pass"
               /\ UNCHANGED message
          ELSE /\ main' = "exit"
               /\ message' = "not_found"
    /\ UNCHANGED <<script, handle, mode, success, probe>>
    /\ UNCHANGED passVars
    /\ UNCHANGED outputVars

\* Primary main(): examine_h5_structure opens the container; a failure is
\* caught by main() and the conversion is attempted all the same
ExamineOpen ==
    /\ main = "examine"
    /\ \E ok \in BOOLEAN :
          IF ok
          THEN /\ handle' = "open"
               /\ mode' = ContainerMode
               /\ main' = "examining"
          ELSE /\ main' = "pass"
               /\ UNCHANGED <<handle, mode>>
    /\ UNCHANGED <<script, success, probe, message>>
    /\ UNCHANGED passVars
    /\ UNCHANGED outputVars

\* Primary main(): examine_h5_structure prints and leaves its with block, by
\* its end or by an exception that main() catches
ExamineEnd ==
    /\ main = "examining"
    /\ handle' = "closed"
    /\ main' = "pass"
    /\ UNCHANGED <<script, mode, success, probe, message>>
    /\ UNCHANGED passVars
    /\ UNCHANGED outputVars

\* Primary main(): the try around convert_h5_to_dat_format
PrimaryMainEnd ==
    /\ script = "primary"
    /\ main = "pass"
    /\ pc \in {"done", "failed"}
    /\ message' = IF pc = "done" THEN "success" ELSE "failure"
    /\ main' = "exit"
    /\ UNCHANGED <<script, handle, mode, success, probe>>
    /\ UNCHANGED passVars
    /\ UNCHANGED outputVars

\* Debugger: f.visititems(print_structure); a sample that cannot be read is
\* caught inside print_structure, any other failure leaves the with block
DebugVisit ==
    /\ script = "debug"
    /\ pc = "visit"
    /\ \E ok \in BOOLEAN :
          IF ok
          THEN /\ pc' = "elec"
               /\ UNCHANGED <<error, handle>>
          ELSE Propagate("OSError")
    /\ UNCHANGED <<script, f, house_key, building_num, house, meter_pos, entriesSeen,
                   metersSeen, meter_key, cur, labels_data, processed_houses>>
    /\ UNCHANGED <<mode, main, success, probe, message>>
    /\ UNCHANGED outputVars

\* Debugger: one of the first three meters of building1's elec group; the
\* sample read is under try/except, the lookups are not
DebugExamineMeter ==
    /\ script = "debug"
    /\ pc = "elec"
    /\ metersSeen < MaxMeters
    /\ metersSeen < DebugMeters
    /\ \E e \in PrimaryEntries, lookup \in BOOLEAN :
          /\ LexLess(meter_key, e.key)
          /\ meter_key' = e.key
          /\ metersSeen' = metersSeen + 1
          /\ cur' = [entry |-> e,
                     outcome |-> IF ~lookup THEN "read_error"
                                 ELSE IF e.fault = "read" THEN "no_sample" ELSE "printed",
                     dir |-> <<>>]
          /\ IF lookup
             THEN UNCHANGED <<pc, error, handle>>
             ELSE Propagate("OSError")
    /\ UNCHANGED <<script, f, house_key, building_num, house, meter_pos, entriesSeen,
                   labels_data, processed_houses>>
    /\ UNCHANGED <<mode, main, success, probe, message>>
    /\ UNCHANGED outputVars

\* Debugger: the with block ends
DebugEnd ==
    /\ script = "debug"
    /\ pc = "elec"
    /\ pc' = "done"
    /\ handle' = "closed"
    /\ UNCHANGED <<script, f, house_key, building_num, house, meter_pos, entriesSeen,
                   metersSeen, meter_key, cur, labels_data, processed_houses, error>>
    /\ UNCHANGED <<mode, main, success, probe, message>>
    /\ UNCHANGED outputVars

\* Debugger: the script ends, with a traceback when the pass raised
DebugExit ==
    /\ script = "debug"
    /\ main = "pass"
    /\ pc \in {"done", "failed"}
    /\ message' = IF pc = "done" THEN "none" ELSE "traceback"
    /\ main' = "exit"
    /\ UNCHANGED <<script, handle, mode, success, probe>>
    /\ UNCHANGED passVars
    /\ UNCHANGED outputVars

\* FallbackReturn with the count kept when an exception ended the pass
FallbackReturnValueByCount == IF processed_houses > 0 THEN "true" ELSE "false"

\* Fallback: "except Exception: return False", else "return processed_houses > 0"
FallbackReturnValue ==
    IF pc = "failed" THEN "false"
    ELSE IF processed_houses > 0 THEN "true" ELSE "false"

\* Fallback main(): success = convert_h5_to_dat_pytables(h5_file)
FallbackReturn ==
    /\ script = "fallback"
    /\ main = "pass"
    /\ pc \in {"done", "failed"}
    /\ success' = FallbackReturnValue
    /\ main' = "returned"
    /\ UNCHANGED <<script, handle, mode, probe, message>>
    /\ UNCHANGED passVars
    /\ UNCHANGED outputVars

\* Fallback main(): "if not success: convert_using_alternative_methods(h5_file)";
\* the probe finds no data/redd directory, no train_small.pkl in it, loads the
\* object and prints its type, or fails loading it (caught inside)
FallbackProbe ==
    /\ main = "returned"
    /\ success = "false"
    /\ probe' \in {"no_dir", "no_file", "inspected", "failed"}
    /\ main' = "probed"
    /\ UNCHANGED <<script, handle, mode, success, message>>
    /\ UNCHANGED passVars
    /\ UNCHANGED outputVars

\* Fallback main(): the banner of either branch, and the return
FallbackBanner ==
    /\ \/ main = "probed" /\ message' = "remediation"
       \/ main = "returned" /\ success = "true" /\ message' = "success"
    /\ main' = "exit"
    /\ UNCHANGED <<script, handle, mode, success, probe>>
    /\ UNCHANGED passVars
    /\ UNCHANGED outputVars

Next ==
    \/ OpenContainer
    \/ PrimaryNextHouse
    \/ PrimaryNextMeter
    \/ PrimaryFinishHouse
    \/ EndReport
    \/ FallbackNextBuilding
    \/ FallbackNextMeter
    \/ FallbackFinishBuilding
    \/ MainStart
    \/ ExamineOpen
    \/ ExamineEnd
    \/ PrimaryMainEnd
    \/ DebugVisit
    \/ DebugExamineMeter
    \/ DebugEnd
    \/ DebugExit
    \/ FallbackReturn
    \/ FallbackProbe
    \/ FallbackBanner

Spec == Init /\ [][Next]_vars

\* ------------------------------------------------------------ claims
\* the meter ids with a channel file in house_<h>
ChannelIds(h) == {p[2] : p \in {q \in DOMAIN channels : q[1] = h}}

\* the meter ids labels.dat of house_<h> names
LabelIds(h) == {labelsFile[h][i].id : i \in 1..Len(labelsFile[h])}

\* the meter id of the entry read last, and its channel file
CurNum ==
    IF script = "primary" THEN ParseInt(Replace(cur.entry.key, S_meter)) ELSE cur.entry.num

CurPath == <<cur.dir, IntToStr(CurNum)>>

\* the script is one of the two converters
Converter == script \in {"primary", "fallback"}

\* a converter has just read a meter entry
MeterStep == Converter /\ metersSeen' = metersSeen + 1

\* C1: in the Primary Converter every top-level entry with the "building"
\* prefix that the loop reaches is converted, whatever happened to the
\* buildings before it (also after one whose labels.dat was written), and no
\* TypeError ends the pass before the end-of-run report.
C1_EveryBuildingConverted ==
    (script = "primary" /\ StartsWith(house_key, S_building))
        => (house = Replace(house_key, S_building) /\ error # "TypeError")

\* C2: at the end of a run, every building with a channel file has a
\* labels.dat, the meter ids of labels.dat are those of the building's channel
\* files, and each channel file has exactly one label line.
C2_LabelsMatchChannels ==
    pc = "done" =>
        \A h \in dirs :
            /\ ChannelIds(h) # {} => h \in DOMAIN labelsFile
            /\ h \in DOMAIN labelsFile =>
                  /\ LabelIds(h) = ChannelIds(h)
                  /\ \A id \in ChannelIds(h) :
                        Cardinality({i \in 1..Len(labelsFile[h]) :
                                        labelsFile[h][i].id = id}) = 1

\* C3: in the Primary Converter a building no meter of which was converted
\* (no label line recorded) has no labels.dat and no channel file, and the
\* counter is the number of labels.dat files written.
C3_EmptyBuildingLeavesNothing ==
    script = "primary" =>
        /\ processed_houses = Cardinality(DOMAIN labelsFile)
        /\ (house \in dirs /\ labels_data = <<>>) =>
              (house \notin DOMAIN labelsFile /\ ChannelIds(house) = {})

SourceTs(table, r) ==
    IF HasColumn(table, S_index) THEN table.rows[r][ColumnOf(table, S_index)]
    ELSE table.frame_index[r]

\* the numbers in the value cells of row r
ValueFields(table, r) ==
    UNION {{table.rows[r][c][k] : k \in 1..Len(table.rows[r][c])} :
              c \in {i \in 1..Len(table.names) : table.names[i] # S_index}}

\* n \div 10^9 for n >= 0
TruncDiv(t) == <<t[1] \div Billion, t[1] % Billion>>

\* the second after t
NextSecond(t) == IF t[2] + 1 = Billion THEN <<t[1] + 1, 0>> ELSE <<t[1], t[2] + 1>>

C6_RescaleBySourceUnit ==
    (script = "fallback" /\ cur.outcome = "converted") =>
        LET file == channels[CurPath]
            table == cur.entry.table
        IN \A r \in 1..Len(file.rows) :
              file.rows[r].ts = IF table.unit = "s" THEN SourceTs(table, r)
                                ELSE TruncDiv(SourceTs(table, r))

\* C7: a run over a container of one building with one meter "meter<m>",
\* whose table has the columns index and values_block_0 and rows (t, v) in
\* nanoseconds, ends with channel_<m>.dat holding the rows (t \div 10^9, v)
\* in order and labels.dat holding the one line of m.
C7_SingleMeterEndToEnd ==
    LET table == cur.entry.table
    IN (/\ Converter
        /\ pc = "done"
        /\ metersSeen = 1
        /\ script = "primary" => Cardinality(dirs) = 1
        /\ cur.entry.hasTable
        /\ cur.entry.fault = "none"
        /\ IsIntLiteral(Replace(cur.entry.key, S_meter))
        /\ cur.entry.key = S_meter \o IntToStr(CurNum)
        /\ table.unit = "ns"
        /\ table.names = <<S_index, S_values_block_0>>
        /\ table.wide = {}
        /\ table.rows # <<>>)
       => /\ DOMAIN channels = {CurPath}
          /\ channels[CurPath].rows =
                [r \in 1..Len(table.rows) |->
                    [ts |-> TruncDiv(table.rows[r][1]), power |-> table.rows[r][2][1]]]
          /\ DOMAIN labelsFile = {cur.dir}
          /\ labelsFile[cur.dir] = <<[id |-> IntToStr(CurNum), name |-> ApplianceName(CurNum)]>>

\* C8: the step that reads a meter whose table has no rows writes no channel
\* file, records no label line and leaves the pass in its meter loop.
C8_EmptyTableSkipped ==
    [][(MeterStep /\ cur'.entry.hasTable /\ cur'.entry.table.rows = <<>>)
          => (/\ channels' = channels
              /\ labels_data' = labels_data
              /\ labelsFile' = labelsFile
              /\ pc' = "meters"
              /\ error' = "none")]_vars

\* a meter with an empty table was read and the meter loop goes on
C8_Witness ==
    /\ cur.entry.hasTable
    /\ cur.entry.table.rows = <<>>
    /\ cur.outcome = "empty"
    /\ pc = "meters"

\* C9: in the Primary Converter no meter's step ends the pass: whatever the
\* step meets, the pass stays in the meter loop with its handle open, and a
\* step that does not convert its meter records no label line.
C9_PerMeterIsolation ==
    [][(script = "primary" /\ MeterStep)
          => (/\ pc' = "meters"
              /\ error' = "none"
              /\ handle' = "open"
              /\ cur'.outcome # "converted" => labels_data' = labels_data)]_vars

\* a meter with an unparsable id was met second in the run, and the loop goes on
C9_Witness ==
    /\ script = "primary"
    /\ pc = "meters"
    /\ cur.outcome = "bad_id"
    /\ metersSeen = 2

\* name contains "value", whatever the case
ContainsValueCI(name) == Contains(Lower(name), S_value)

\* column c is the one the Primary Converter is to take
Chosen(table, c) ==
    \/ table.names[c] = S_values_block_0
    \/ /\ ~HasColumn(table, S_values_block_0)
       /\ ContainsValueCI(table.names[c])
       /\ \A j \in 1..(c - 1) : ~ContainsValueCI(table.names[j])

\* the entry is a meter with a parsable id and a readable table with rows and
\* an index column, and no I/O fails
Readable(e) ==
    /\ StartsWith(e.key, S_meter)
    /\ IsIntLiteral(Replace(e.key, S_meter))
    /\ e.hasTable
    /\ e.fault = "none"
    /\ e.table.rows # <<>>
    /\ HasColumn(e.table, S_index)

\* C10: the Primary Converter takes values_block_0 when the table has it,
\* otherwise the first column whose name contains "value" in any case, and
\* writes the first field of that column row by row; with no such column the
\* step writes no channel file and records no label line.
C10_ValueColumnResolution ==
    [][(script = "primary" /\ MeterStep /\ Readable(cur'.entry))
          => LET table == cur'.entry.table
                 cols == {c \in 1..Len(table.names) : Chosen(table, c)}
             IN IF cols # {}
                THEN /\ Cardinality(cols) = 1
                     /\ cur'.outcome = "converted"
                     /\ \A c \in cols :
                           [r \in 1..Len(channels'[CurPath'].rows) |->
                               channels'[CurPath'].rows[r].power]
                           = [r \in 1..Len(table.rows) |-> table.rows[r][c][1]]
                     /\ labels_data' = Append(labels_data, LabelLine(CurNum'))
                ELSE /\ cur'.outcome = "no_values"
                     /\ channels' = channels
                     /\ labels_data' = labels_data]_vars

\* the table without values_block_0, whose first "value" column has two
\* fields per row, was converted by the Primary Converter
C10_Witness ==
    /\ script = "primary"
    /\ cur.outcome = "converted"
    /\ cur.entry.table = T_alt

\* the Fallback's entry point ran the probe and printed the remediation banner
ProbePathTaken == probe # "none" /\ message = "remediation"

\* C11: when the Fallback Converter's entry point has returned from a run over
\* an existing container, the probe and the remediation banner have run if and
\* only if no building has a labels.dat; the steps of that path leave the
\* output files as they are.
C11_ProbeIffNoOutput ==
    /\ []((script = "fallback" /\ main = "exit" /\ message # "not_found")
             => (ProbePathTaken <=> DOMAIN labelsFile = {}))
    /\ [][(script = "fallback" /\ main \in {"returned", "probed"})
             => UNCHANGED outputVars]_vars

\* a conversion or inspection pass is inside its with block
InsidePass ==
    \/ main = "examining"
    \/ main = "pass" /\ pc \in {"houses", "meters", "visit", "elec"}

\* C12: in every script the container's handle is open only inside the with
\* block of a pass: once the pass has ended, by its end or by an exception,
\* and whenever the caller runs, the handle is released, also after the
\* Primary Converter bound f to a labels.dat file; and the container is only
\* ever opened for reading.
C12_HandleReleasedOnEveryExit ==
    /\ handle = "open" => InsidePass
    /\ (pc \in {"done", "failed"} \/ main \in {"returned", "probed", "exit"})
          => handle = "closed"
    /\ handle = "open" => mode = "r"
    /\ mode \in {"none", "r"}

\* the Primary Converter's pass was ended by the TypeError that follows the
\* write of a labels.dat, and main() has gone on
C12_Witness ==
    /\ script = "primary"
    /\ f = "labels_file"
    /\ error = "TypeError"
    /\ main = "exit"
    /\ handle = "closed"

====
